---------------------------- MODULE Spec2Model ----------------------------
(***************************************************************************)
(* Stundenrapport time-sheet editor (src/src/app/page.tsx).                *)
(*                                                                         *)
(* A string is a sequence of one-character strings, so that trim, the      *)
(* time regex, parseInt and the clipboard splitting are computed character *)
(* by character, as the code computes them.                                *)
(***************************************************************************)
EXTENDS Integers, Sequences, FiniteSets, TLC

VARIABLES
    dayEntries,   \* useState<DayEntry[]>: the grid, a sequence of day entries
    prevEntries,  \* the array that was the state before the last update, as it reads now
    status,       \* useState(status line)
    focus,        \* the grid input that has the DOM focus, or NoFocus
    selection,    \* the selection controller: mode, anchor and endpoint
    prevented,    \* whether the last dispatched event had preventDefault() called
    ev,           \* the last event dispatched / the last call made (its inputs)
    ret,          \* the value returned by the last call of a pure function
    ops,          \* number of events handled so far (bounds the exploration)
    personalInfo, \* useState<PersonalInfo>
    isGenerating, \* useState(false)
    runs,         \* the calls of generatePDF that have not returned yet
    download,     \* the last file handed to the browser for download, or NoFile
    templates,    \* the stored list of templates
    clipboard     \* the text on the system clipboard

\* The state of the export
exportVars == <<personalInfo, isGenerating, runs, download>>

\* The template store and the clipboard
storeVars == <<templates, clipboard>>

vars == <<dayEntries, prevEntries, status, focus, selection, prevented, ev, ret, ops,
          personalInfo, isGenerating, runs, download, templates, clipboard>>

---------------------------------------------------------------------------
(* Characters and strings *)

Digits == <<"0", "1", "2", "3", "4", "5", "6", "7", "8", "9">>

IsDigit(c) == \E i \in 1..10 : Digits[i] = c

DigitVal(c) == (CHOOSE i \in 1..10 : Digits[i] = c) - 1

\* The characters String.prototype.trim strips, among those the model uses.
WhiteSpace == {" ", "\t", "\n", "\r"}

IsSpace(c) == c \in WhiteSpace

RECURSIVE trimStart(_)
trimStart(s) ==
    IF s # <<>> /\ IsSpace(Head(s)) THEN trimStart(Tail(s)) ELSE s

RECURSIVE trimEnd(_)
trimEnd(s) ==
    IF s # <<>> /\ IsSpace(s[Len(s)]) THEN trimEnd(SubSeq(s, 1, Len(s) - 1)) ELSE s

\* String.prototype.trim
trim(s) == trimEnd(trimStart(s))

\* parseInt(ds, 10) on a string of decimal digits
RECURSIVE parseInt(_)
parseInt(ds) ==
    IF ds = <<>> THEN 0
    ELSE parseInt(SubSeq(ds, 1, Len(ds) - 1)) * 10 + DigitVal(ds[Len(ds)])

---------------------------------------------------------------------------
(* parseTime and calculateMinutes *)

\* null
NULL == [hours |-> -1, minutes |-> -1]

\* One attempt of the regex /^(\d{1,2}):(\d{2})$/ with the first group taking k digits.
matchWith(t, k) ==
    /\ Len(t) = k + 3
    /\ \A i \in 1..k : IsDigit(t[i])
    /\ t[k + 1] = ":"
    /\ IsDigit(t[k + 2])
    /\ IsDigit(t[k + 3])

\* t.match(/^(\d{1,2}):(\d{2})$/): the greedy group tries two digits, then one.
matchTime(t) ==
    IF matchWith(t, 2)
    THEN [matched |-> TRUE, g1 |-> SubSeq(t, 1, 2), g2 |-> SubSeq(t, 4, 5)]
    ELSE IF matchWith(t, 1)
    THEN [matched |-> TRUE, g1 |-> SubSeq(t, 1, 1), g2 |-> SubSeq(t, 3, 4)]
    ELSE [matched |-> FALSE, g1 |-> <<>>, g2 |-> <<>>]

\* A plausible slip: the hour range check admits 24.
parseTime_Mutant(timeStr) ==
    IF timeStr = <<>> \/ trim(timeStr) = <<>> THEN NULL
    ELSE LET match == matchTime(trim(timeStr)) IN
         IF match.matched
         THEN LET h == parseInt(match.g1)
                  m == parseInt(match.g2)
              IN  IF h >= 0 /\ h <= 24 /\ m >= 0 /\ m <= 59
                  THEN [hours |-> h, minutes |-> m]
                  ELSE NULL
         ELSE NULL

parseTime(timeStr) ==
    IF timeStr = <<>> \/ trim(timeStr) = <<>> THEN NULL
    ELSE LET match == matchTime(trim(timeStr)) IN
         IF match.matched
         THEN LET h == parseInt(match.g1)
                  m == parseInt(match.g2)
              IN  IF h >= 0 /\ h <= 23 /\ m >= 0 /\ m <= 59
                  THEN [hours |-> h, minutes |-> m]
                  ELSE NULL
         ELSE NULL

\* A plausible slip: the overnight branch is missing.
calculateMinutes_Mutant(von, bis) ==
    LET start == parseTime(von)
        end   == parseTime(bis)
    IN  IF start = NULL \/ end = NULL THEN 0
        ELSE (end.hours * 60 + end.minutes) - (start.hours * 60 + start.minutes)

calculateMinutes(von, bis) ==
    LET start == parseTime(von)
        end   == parseTime(bis)
    IN  IF start = NULL \/ end = NULL THEN 0
        ELSE LET startMin == start.hours * 60 + start.minutes
                 endMin   == end.hours * 60 + end.minutes
             IN  IF endMin >= startMin
                 THEN endMin - startMin
                 ELSE (24 * 60 - startMin) + endMin

---------------------------------------------------------------------------
(* The day grid *)

NumDays == 31

NumSlots == 3

MaxCol == 5

\* { von: '', bis: '' }
EmptySlot == [von |-> <<>>, bis |-> <<>>]

createEmptyDayEntries ==
    [d \in 1..NumDays |->
        [slots |-> [i \in 1..NumSlots |-> EmptySlot], remark |-> <<>>]]

\* null
NoPos == [day |-> 0, slotIndex |-> -1, field |-> "none"]

\* colIndex: 0=von1, 1=bis1, 2=von2, 3=bis2, 4=von3, 5=bis3
getCellPosition(day, colIndex) ==
    IF colIndex < 0 \/ colIndex > MaxCol THEN NoPos
    ELSE [day       |-> day,
          slotIndex |-> colIndex \div 2,
          field     |-> IF colIndex % 2 = 0 THEN "von" ELSE "bis"]

\* slots.reduce((total, slot) => total + calculateMinutes(slot.von, slot.bis), 0),
\* over the first n slots
RECURSIVE reduceSlots(_, _)
reduceSlots(slots, n) ==
    IF n = 0 THEN 0
    ELSE reduceSlots(slots, n - 1) + calculateMinutes(slots[n].von, slots[n].bis)

\* A plausible slip: the last slot of the day is left out of the sum.
calculateDayMinutes_Mutant(day) ==
    LET entry == dayEntries[day]
    IN  reduceSlots(entry.slots, Len(entry.slots) - 1)

calculateDayMinutes(day) ==
    LET entry == dayEntries[day]
    IN  reduceSlots(entry.slots, Len(entry.slots))

\* dayEntries.reduce((total, _, index) => total + calculateDayMinutes(index + 1), 0),
\* over the first n entries
RECURSIVE reduceDays(_)
reduceDays(n) ==
    IF n = 0 THEN 0 ELSE reduceDays(n - 1) + calculateDayMinutes(n)

totalMinutes == reduceDays(Len(dayEntries))

totalHours == totalMinutes \div 60

remainingMinutes == totalMinutes % 60

\* A plausible slip: filter in place of map, so only the slot written is kept.
mapSlots_Mutant(slots, slotIndex, field, value) ==
    <<[slots[slotIndex + 1] EXCEPT ![field] = value]>>

\* The slots of one entry with field `field` of slot `slotIndex` replaced:
\* slots.map((slot, i) => i === slotIndex ? { ...slot, [field]: value } : slot)
mapSlots(slots, slotIndex, field, value) ==
    [i \in 1..Len(slots) |->
        IF i - 1 = slotIndex THEN [slots[i] EXCEPT ![field] = value] ELSE slots[i]]

\* A plausible slip: the entry is rebuilt without spreading the old one, so the
\* remark of the day is lost.
updateTimeSlot_Mutant(prev, day, slotIndex, field, value) ==
    [state |-> [prev EXCEPT ![day] =
                   [slots  |-> mapSlots(prev[day].slots, slotIndex, field, value),
                    remark |-> <<>>]],
     prev  |-> prev]

\* The updater passed to setDayEntries. `state` is the array it returns; `prev` is
\* the content of the array it was given, as it reads after the call (the code
\* copies with [...prev] and replaces one entry of the copy by a new object).
updateTimeSlot(prev, day, slotIndex, field, value) ==
    [state |-> [prev EXCEPT ![day] =
                   [prev[day] EXCEPT
                       !.slots = mapSlots(prev[day].slots, slotIndex, field, value)]],
     prev  |-> prev]

updateRemark(prev, day, value) ==
    [state |-> [prev EXCEPT ![day] = [prev[day] EXCEPT !.remark = value]],
     prev  |-> prev]

\* A plausible slip: the entries are cleared without asking.
clearAll_Mutant(prev, curStatus, ok) ==
    [state |-> createEmptyDayEntries, status |-> [kind |-> "Cleared", n |-> 0]]

\* clearAll, with `ok` the answer to confirm('Clear all entries?'): the day entries
\* and the status line afterwards
clearAll(prev, curStatus, ok) ==
    IF ok
    THEN [state |-> createEmptyDayEntries, status |-> [kind |-> "Cleared", n |-> 0]]
    ELSE [state |-> prev, status |-> curStatus]

---------------------------------------------------------------------------
(* Paste *)

\* String.prototype.includes for a single character
includes(s, c) == \E i \in 1..Len(s) : s[i] = c

\* s.split(/\r?\n/), with `cur` the piece being collected
RECURSIVE splitLinesFrom(_, _)
splitLinesFrom(s, cur) ==
    IF s = <<>> THEN <<cur>>
    ELSE IF Head(s) = "\n" THEN <<cur>> \o splitLinesFrom(Tail(s), <<>>)
    ELSE IF Head(s) = "\r" /\ Len(s) >= 2 /\ s[2] = "\n"
         THEN <<cur>> \o splitLinesFrom(Tail(Tail(s)), <<>>)
    ELSE splitLinesFrom(Tail(s), Append(cur, Head(s)))

splitLines(s) == splitLinesFrom(s, <<>>)

\* s.split('\t'), with `cur` the piece being collected
RECURSIVE splitTabsFrom(_, _)
splitTabsFrom(s, cur) ==
    IF s = <<>> THEN <<cur>>
    ELSE IF Head(s) = "\t" THEN <<cur>> \o splitTabsFrom(Tail(s), <<>>)
    ELSE splitTabsFrom(Tail(s), Append(cur, Head(s)))

splitTabs(s) == splitTabsFrom(s, <<>>)

\* A plausible slip: the entry written to is rebuilt without spreading the old
\* one, so the remark of the day is lost.
RECURSIVE pasteCells_Mutant(_, _, _, _, _)
pasteCells_Mutant(newEntries, targetDay, colIndex, cells, cellOffset) ==
    IF cellOffset >= Len(cells) THEN newEntries
    ELSE LET targetCol == colIndex + cellOffset
             pos       == getCellPosition(targetDay, targetCol)
             written   ==
                 IF pos # NoPos /\ pos.day <= NumDays
                 THEN [newEntries EXCEPT ![pos.day] =
                          [slots  |-> mapSlots(newEntries[pos.day].slots, pos.slotIndex,
                                               pos.field, trim(cells[cellOffset + 1])),
                           remark |-> <<>>]]
                 ELSE newEntries
         IN  pasteCells_Mutant(written, targetDay, colIndex, cells, cellOffset + 1)

\* cells.forEach((cellValue, cellOffset) => ...), from cell number cellOffset on
RECURSIVE pasteCells(_, _, _, _, _)
pasteCells(newEntries, targetDay, colIndex, cells, cellOffset) ==
    IF cellOffset >= Len(cells) THEN newEntries
    ELSE LET targetCol == colIndex + cellOffset
             pos       == getCellPosition(targetDay, targetCol)
             written   ==
                 IF pos # NoPos /\ pos.day <= NumDays
                 THEN [newEntries EXCEPT ![pos.day] =
                          [newEntries[pos.day] EXCEPT
                              !.slots = mapSlots(newEntries[pos.day].slots, pos.slotIndex,
                                                 pos.field, trim(cells[cellOffset + 1]))]]
                 ELSE newEntries
         IN  pasteCells(written, targetDay, colIndex, cells, cellOffset + 1)

\* rows.forEach((row, rowOffset) => ...), from row number rowOffset on
RECURSIVE pasteRows(_, _, _, _, _)
pasteRows(newEntries, day, colIndex, rows, rowOffset) ==
    IF rowOffset >= Len(rows) THEN newEntries
    ELSE LET targetDay == day + rowOffset
             written   ==
                 IF targetDay > NumDays THEN newEntries
                 ELSE pasteCells(newEntries, targetDay, colIndex,
                                 splitTabs(rows[rowOffset + 1]), 0)
         IN  pasteRows(written, day, colIndex, rows, rowOffset + 1)

\* Whether handlePaste takes the paste over (a multi-cell paste)
isMultiCell(pastedText) == includes(pastedText, "\t") \/ includes(pastedText, "\n")

\* const rows = pastedText.trim().split(/\r?\n/)
pasteRowsOf(pastedText) == splitLines(trim(pastedText))

\* A plausible slip: every paste is taken over, also a single-cell one.
handlePaste_Mutant(prev, curStatus, day, colIndex, pastedText) ==
    LET rows == pasteRowsOf(pastedText)
    IN  [state     |-> pasteRows(prev, day, colIndex, rows, 0),
         prev      |-> prev,
         status    |-> [kind |-> "Pasted", n |-> Len(rows)],
         prevented |-> TRUE]

\* handlePaste(e, day, colIndex) with e.clipboardData.getData('text') = pastedText:
\* the new day entries, the array it was given, the status line and whether
\* e.preventDefault() was called.
handlePaste(prev, curStatus, day, colIndex, pastedText) ==
    IF isMultiCell(pastedText)
    THEN LET rows == pasteRowsOf(pastedText)
         IN  [state     |-> pasteRows(prev, day, colIndex, rows, 0),
              prev      |-> prev,
              status    |-> [kind |-> "Pasted", n |-> Len(rows)],
              prevented |-> TRUE]
    ELSE [state |-> prev, prev |-> prev, status |-> curStatus, prevented |-> FALSE]

---------------------------------------------------------------------------
(* Keyboard navigation *)

\* No grid input has the focus.
NoFocus == [day |-> 0, col |-> -1]

\* inputRefs.current[`input-${d}-${c}`] is set for the rendered inputs only.
hasRef(d, c) == d \in 1..NumDays /\ c \in 0..MaxCol

\* ref?.focus(); ref?.select(): the focus moves only if the input exists.
focusRef(cur, d, c) == IF hasRef(d, c) THEN [day |-> d, col |-> c] ELSE cur

\* A plausible slip: ArrowUp moves down like ArrowDown.
handleKeyDown_Mutant(day, colIndex, key, selectionStart, valueLength) ==
    LET here == [day |-> day, col |-> colIndex] IN
    IF key = "Tab" THEN [focus |-> here, prevented |-> FALSE]
    ELSE IF key \in {"Enter", "ArrowDown", "ArrowUp"}
    THEN [focus     |-> IF day + 1 <= NumDays THEN focusRef(here, day + 1, colIndex) ELSE here,
          prevented |-> TRUE]
    ELSE IF key = "ArrowRight" /\ selectionStart = valueLength
    THEN [focus     |-> IF colIndex + 1 <= MaxCol THEN focusRef(here, day, colIndex + 1) ELSE here,
          prevented |-> FALSE]
    ELSE IF key = "ArrowLeft" /\ selectionStart = 0
    THEN [focus     |-> IF colIndex - 1 >= 0 THEN focusRef(here, day, colIndex - 1) ELSE here,
          prevented |-> FALSE]
    ELSE [focus |-> here, prevented |-> FALSE]

\* handleKeyDown(e, day, colIndex) with e.key = key, e.currentTarget.selectionStart =
\* selectionStart and e.currentTarget.value.length = valueLength: the input that has
\* the focus afterwards and whether e.preventDefault() was called.
handleKeyDown(day, colIndex, key, selectionStart, valueLength) ==
    LET here == [day |-> day, col |-> colIndex] IN
    IF key = "Tab" THEN [focus |-> here, prevented |-> FALSE]
    ELSE IF key \in {"Enter", "ArrowDown"}
    THEN [focus     |-> IF day + 1 <= NumDays THEN focusRef(here, day + 1, colIndex) ELSE here,
          prevented |-> TRUE]
    ELSE IF key = "ArrowUp"
    THEN [focus     |-> IF day - 1 >= 1 THEN focusRef(here, day - 1, colIndex) ELSE here,
          prevented |-> TRUE]
    ELSE IF key = "ArrowRight" /\ selectionStart = valueLength
    THEN [focus     |-> IF colIndex + 1 <= MaxCol THEN focusRef(here, day, colIndex + 1) ELSE here,
          prevented |-> FALSE]
    ELSE IF key = "ArrowLeft" /\ selectionStart = 0
    THEN [focus     |-> IF colIndex - 1 >= 0 THEN focusRef(here, day, colIndex - 1) ELSE here,
          prevented |-> FALSE]
    ELSE [focus |-> here, prevented |-> FALSE]

\* value={dayEntries[day - 1].slots[slotIndex].von} (or .bis) of the input at (day, col)
cellValue(entries, day, col) ==
    LET pos == getCellPosition(day, col)
    IN  entries[day].slots[pos.slotIndex + 1][pos.field]

---------------------------------------------------------------------------
(* Selection and copy: the selection controller and the copy serialization *)

\* No cell
NoCell == [day |-> 0, col |-> -1]

\* Idle: no selection
IdleSelection == [mode |-> "Idle", anchor |-> NoCell, endpoint |-> NoCell]

\* A plausible slip: the pointer also drags the anchor along.
pointerEnter_Mutant(sel, cell) ==
    IF sel.mode = "Selecting" THEN [sel EXCEPT !.anchor = cell, !.endpoint = cell] ELSE sel

\* Pointer-down on a grid cell: anchor and endpoint are that cell, Selecting begins.
pointerDown(sel, cell) == [mode |-> "Selecting", anchor |-> cell, endpoint |-> cell]

\* Pointer-enter on a cell: while Selecting the endpoint follows the pointer.
pointerEnter(sel, cell) ==
    IF sel.mode = "Selecting" THEN [sel EXCEPT !.endpoint = cell] ELSE sel

\* Global pointer-up: Selecting becomes Selected, the rectangle is frozen.
pointerUp(sel) ==
    IF sel.mode = "Selecting" THEN [sel EXCEPT !.mode = "Selected"] ELSE sel

\* Escape, or a click on a non-grid area, while Selected: back to Idle.
clearSelection(sel) == IF sel.mode = "Selected" THEN IdleSelection ELSE sel

\* The pieces joined with the separator between them
RECURSIVE join(_, _)
join(pieces, sep) ==
    IF pieces = <<>> THEN <<>>
    ELSE IF Len(pieces) = 1 THEN pieces[1]
    ELSE pieces[1] \o <<sep>> \o join(Tail(pieces), sep)

\* Copy: the rectangle row by row, the raw field strings of a row joined by a tab,
\* the rows by a newline.
copyText(entries, minDay, maxDay, minCol, maxCol) ==
    join([r \in 1..(maxDay - minDay + 1) |->
             join([c \in 1..(maxCol - minCol + 1) |->
                      entries[minDay + r - 1].slots[((minCol + c - 1) \div 2) + 1]
                          [IF (minCol + c - 1) % 2 = 0 THEN "von" ELSE "bis"]],
                  "\t")],
         "\n")

Min(a, b) == IF a <= b THEN a ELSE b

Max(a, b) == IF a >= b THEN a ELSE b

\* A plausible slip: the rectangle is taken from the anchor to the endpoint as
\* dragged.
normalize_Mutant(sel) ==
    [minDay |-> sel.anchor.day, maxDay |-> sel.endpoint.day,
     minCol |-> sel.anchor.col, maxCol |-> sel.endpoint.col]

\* The selection range, normalized to (minDay, maxDay, minCol, maxCol)
normalize(sel) ==
    [minDay |-> Min(sel.anchor.day, sel.endpoint.day),
     maxDay |-> Max(sel.anchor.day, sel.endpoint.day),
     minCol |-> Min(sel.anchor.col, sel.endpoint.col),
     maxCol |-> Max(sel.anchor.col, sel.endpoint.col)]

\* Copy (ctrl/cmd+C): while a selection exists, the text of its rectangle goes to
\* the clipboard and the number of cells copied is reported; otherwise nothing.
copy(sel, entries, curClipboard, curStatus) ==
    IF sel.mode = "Idle"
    THEN [clipboard |-> curClipboard, status |-> curStatus]
    ELSE LET rect == normalize(sel)
         IN  [clipboard |-> copyText(entries, rect.minDay, rect.maxDay,
                                     rect.minCol, rect.maxCol),
              status    |-> [kind |-> "Copied",
                             n    |-> (rect.maxDay - rect.minDay + 1)
                                      * (rect.maxCol - rect.minCol + 1)]]

---------------------------------------------------------------------------
(* Personal info and the PDF form *)

\* new Date(), as far as the page reads it: the year and the month of today
Today == [year |-> <<"2", "0", "2", "6">>, month |-> <<"1", "1">>]

\* useState<PersonalInfo>({ name: '', ..., jahr: year of today, monat: month of today })
initialPersonalInfo ==
    [name |-> <<>>, vorname |-> <<>>, gebdat |-> <<>>, persnr |-> <<>>,
     jahr |-> Today.year, monat |-> Today.month]

MONTHS ==
    << [value |-> <<"1">>,      label |-> <<"J", "a", "n", "u", "a", "r">>],
       [value |-> <<"2">>,      label |-> <<"F", "e", "b", "r", "u", "a", "r">>],
       [value |-> <<"3">>,      label |-> <<"M", "ä", "r", "z">>],
       [value |-> <<"4">>,      label |-> <<"A", "p", "r", "i", "l">>],
       [value |-> <<"5">>,      label |-> <<"M", "a", "i">>],
       [value |-> <<"6">>,      label |-> <<"J", "u", "n", "i">>],
       [value |-> <<"7">>,      label |-> <<"J", "u", "l", "i">>],
       [value |-> <<"8">>,      label |-> <<"A", "u", "g", "u", "s", "t">>],
       [value |-> <<"9">>,      label |-> <<"S", "e", "p", "t", "e", "m", "b", "e", "r">>],
       [value |-> <<"1", "0">>, label |-> <<"O", "k", "t", "o", "b", "e", "r">>],
       [value |-> <<"1", "1">>, label |-> <<"N", "o", "v", "e", "m", "b", "e", "r">>],
       [value |-> <<"1", "2">>, label |-> <<"D", "e", "z", "e", "m", "b", "e", "r">>] >>

\* Number.prototype.toString of a natural number
RECURSIVE toString(_)
toString(n) ==
    IF n < 10 THEN <<Digits[n + 1]>>
    ELSE toString(n \div 10) \o <<Digits[(n % 10) + 1]>>

\* String.prototype.includes for a string
includesString(s, sub) ==
    \E i \in 0..(Len(s) - Len(sub)) : SubSeq(s, i + 1, i + Len(sub)) = sub

\* The name of a form field: `allg.name`, `totall_dez`, ... have no slot and no day,
\* `tab.totall_dd.${day}` and `tab.bemerkung.${day}` a day, `tab.ein_${slot}.${day}`
\* and `tab.aus_${slot}.${day}` a slot and a day.
fieldName(name, slot, day) == [name |-> name, slot |-> slot, day |-> day]

\* The text fields of the form Stundenrapport.pdf, by the naming the page fills
FormTextFields ==
    {fieldName(n, 0, 0) : n \in {"allg.name", "allg.vorname", "allg.gebdat", "allg.persnr",
                                 "allg.jahr", "tab.totall_mm", "totall_dez",
                                 "allg.datum.ma", "allg.datum.vg"}}
    \cup {fieldName(n, 0, d) : n \in {"tab.totall_dd", "tab.bemerkung"}, d \in 1..NumDays}
    \cup {fieldName(n, s, d) : n \in {"tab.ein", "tab.aus"}, s \in 1..NumSlots, d \in 1..NumDays}

\* The options of the dropdown allg.monat: the labels of MONTHS
MonthOptions == [i \in 1..Len(MONTHS) |-> MONTHS[i].label]

\* No dropdown allg.monat in the form
NoDropdown == [present |-> FALSE, options |-> <<>>, selected |-> <<>>]

\* pdfDoc.getForm() of a loaded file: the text of each text field (empty at first),
\* the dropdown allg.monat, and the fields made read-only
getForm(file) ==
    [text     |-> [f \in file.textFields |-> <<>>],
     dropdown |-> file.dropdown,
     readOnly |-> {}]

\* try { form.getTextField(name).setText(value) } catch { /* skip */ }
setTextField(form, name, value) ==
    IF name \in DOMAIN form.text
    THEN [form EXCEPT !.text[name] = value]
    ELSE form

\* MONTHS.find(m => m.value === monat)?.label || ''
monthLabelOf(monat) ==
    IF \E i \in 1..Len(MONTHS) : MONTHS[i].value = monat
    THEN MONTHS[CHOOSE i \in 1..Len(MONTHS) :
                    /\ MONTHS[i].value = monat
                    /\ \A j \in 1..(i - 1) : MONTHS[j].value # monat].label
    ELSE <<>>

\* A plausible slip: with no matching option, the first option is selected.
selectMonth_Mutant(form, monat) ==
    IF ~form.dropdown.present THEN form
    ELSE LET monthLabel == monthLabelOf(monat)
             options    == form.dropdown.options
             found      == {i \in 1..Len(options) : includesString(options[i], monthLabel)}
         IN  IF found = {} THEN [form EXCEPT !.dropdown.selected = options[1]]
             ELSE [form EXCEPT !.dropdown.selected =
                      options[CHOOSE i \in found : \A j \in found : i <= j]]

\* The month dropdown: getDropdown throws if the form has none (skipped); otherwise
\* the first option that includes the label of the month is selected, if there is
\* one and it is not the empty string.
selectMonth(form, monat) ==
    IF ~form.dropdown.present THEN form
    ELSE LET monthLabel == monthLabelOf(monat)
             options    == form.dropdown.options
             found      == {i \in 1..Len(options) : includesString(options[i], monthLabel)}
         IN  IF found = {} THEN form
             ELSE LET matchingOption == options[CHOOSE i \in found : \A j \in found : i <= j]
                  IN  IF matchingOption # <<>>
                      THEN [form EXCEPT !.dropdown.selected = matchingOption]
                      ELSE form

---------------------------------------------------------------------------
(* Templates *)

\* The personal-info fields a template holds
templateInfo(info) ==
    [name |-> info.name, vorname |-> info.vorname,
     gebdat |-> info.gebdat, persnr |-> info.persnr]

\* Whether a template of that name is stored
hasTemplate(list, name) == \E i \in 1..Len(list) : list[i].name = name

\* A plausible slip: the new entry is always added to the list.
saveTemplate_Mutant(list, name, info, now) ==
    Append(list, [name |-> name, personalInfo |-> templateInfo(info), savedAt |-> now])

\* Save the personal info as a template: the entry of that name is overwritten,
\* or a new entry is added.
saveTemplate(list, name, info, now) ==
    LET entry == [name |-> name, personalInfo |-> templateInfo(info), savedAt |-> now]
    IN  IF hasTemplate(list, name)
        THEN [i \in 1..Len(list) |-> IF list[i].name = name THEN entry ELSE list[i]]
        ELSE Append(list, entry)

\* Delete the template of that name, after confirmation (`ok` is the answer)
deleteTemplate(list, name, ok) ==
    IF ok THEN SelectSeq(list, LAMBDA t : t.name # name) ELSE list

---------------------------------------------------------------------------
(* generatePDF *)

\* calculateDayMinutes(day) of the render that made the handler: it reads the
\* dayEntries of that render
dayMinutesOf(entries, day) == reduceSlots(entries[day].slots, Len(entries[day].slots))

\* What a generatePDF handler reads of the render that made it: personalInfo,
\* dayEntries (also through calculateDayMinutes), totalMinutes and totalHours
closureOf(info, entries, minutes, hours) ==
    [personalInfo |-> info, dayEntries |-> entries,
     totalMinutes |-> minutes, totalHours |-> hours]

\* setTextField('allg.name', personalInfo.name); ... ; setTextField('allg.jahr', ...)
fillPersonalInfo(form, info) ==
    LET f1 == setTextField(form, fieldName("allg.name", 0, 0), info.name)
        f2 == setTextField(f1, fieldName("allg.vorname", 0, 0), info.vorname)
        f3 == setTextField(f2, fieldName("allg.gebdat", 0, 0), info.gebdat)
        f4 == setTextField(f3, fieldName("allg.persnr", 0, 0), info.persnr)
    IN  setTextField(f4, fieldName("allg.jahr", 0, 0), info.jahr)

\* A plausible slip: only strings that are times are written to the form.
RECURSIVE fillSlots_Mutant(_, _, _, _)
fillSlots_Mutant(form, entry, day, slot) ==
    IF slot >= 3 THEN form
    ELSE LET von == entry.slots[slot + 1].von
             bis == entry.slots[slot + 1].bis
             f1  == IF parseTime(von) # NULL
                    THEN setTextField(form, fieldName("tab.ein", slot + 1, day), von)
                    ELSE form
             f2  == IF parseTime(bis) # NULL
                    THEN setTextField(f1, fieldName("tab.aus", slot + 1, day), bis)
                    ELSE f1
         IN  fillSlots_Mutant(f2, entry, day, slot + 1)

\* for (let slot = 0; slot < 3; slot++) { if (von) ...; if (bis) ... }, from `slot` on
RECURSIVE fillSlots(_, _, _, _)
fillSlots(form, entry, day, slot) ==
    IF slot >= 3 THEN form
    ELSE LET von == entry.slots[slot + 1].von
             bis == entry.slots[slot + 1].bis
             f1  == IF von # <<>>
                    THEN setTextField(form, fieldName("tab.ein", slot + 1, day), von)
                    ELSE form
             f2  == IF bis # <<>>
                    THEN setTextField(f1, fieldName("tab.aus", slot + 1, day), bis)
                    ELSE f1
         IN  fillSlots(f2, entry, day, slot + 1)

\* The body of for (let day = 1; day <= 31; day++): the slots, the daily total and
\* the remark of one day, with `entries` the dayEntries the handler reads
fillDay(form, entries, day) ==
    LET entry      == entries[day]
        f1         == fillSlots(form, entry, day, 0)
        dayMinutes == dayMinutesOf(entries, day)
        f2         == IF dayMinutes > 0
                      THEN setTextField(f1, fieldName("tab.totall_dd", 0, day),
                                        toString(dayMinutes))
                      ELSE f1
    IN  IF entry.remark # <<>>
        THEN setTextField(f2, fieldName("tab.bemerkung", 0, day), entry.remark)
        ELSE f2

\* The text fields of the form that carry the day `day` in their name
fieldsOfDay(form, day) ==
    [form EXCEPT !.text = [f \in {g \in DOMAIN form.text : g.day = day} |-> form.text[f]]]

\* for (let day = 1; day <= 31; day++) { ... }: the body for day d writes only
\* fields that carry d in their name, so each field reads as after the body of
\* its day.
fillDays(form, entries) ==
    [form EXCEPT !.text =
        [f \in DOMAIN form.text |->
            IF f.day \in 1..31
            THEN fillDay(fieldsOfDay(form, f.day), entries, f.day).text[f]
            ELSE form.text[f]]]

\* for (const field of form.getFields()) { ...; field.enableReadOnly() }: every
\* field but the two signature dates
flatten(form) ==
    [form EXCEPT !.readOnly =
        {f \in DOMAIN form.text : f.name \notin {"allg.datum.ma", "allg.datum.vg"}}
        \cup (IF form.dropdown.present THEN {fieldName("allg.monat", 0, 0)} ELSE {})]

\* A plausible slip: the entries are read from the latest grid, the totals from the
\* render that made the handler.
fillForm_Mutant(form, closure) ==
    LET f1 == fillPersonalInfo(form, closure.personalInfo)
        f2 == selectMonth(f1, closure.personalInfo.monat)
        f3 == fillDays(f2, dayEntries)
        f4 == setTextField(f3, fieldName("tab.totall_mm", 0, 0), toString(closure.totalMinutes))
        f5 == setTextField(f4, fieldName("totall_dez", 0, 0), toString(closure.totalHours))
    IN  flatten(f5)

\* The part of generatePDF between PDFDocument.load and pdfDoc.save: personal info,
\* month, time entries, totals, read-only
fillForm(form, closure) ==
    LET f1 == fillPersonalInfo(form, closure.personalInfo)
        f2 == selectMonth(f1, closure.personalInfo.monat)
        f3 == fillDays(f2, closure.dayEntries)
        f4 == setTextField(f3, fieldName("tab.totall_mm", 0, 0), toString(closure.totalMinutes))
        f5 == setTextField(f4, fieldName("totall_dez", 0, 0), toString(closure.totalHours))
    IN  flatten(f5)

\* No file
NoFile == [name |-> <<>>, form |-> getForm([textFields |-> {}, dropdown |-> NoDropdown])]

\* A plausible slip: the trigger is never disabled.
generateDisabled_Mutant == FALSE

\* disabled={isGenerating} of the Generate PDF button
generateDisabled == isGenerating

\* A plausible slip: isGenerating is reset at the end of the try block, not in a
\* finally block, so a throw leaves it set.
afterRun_Mutant(thrown, minutes) ==
    IF thrown
    THEN [status |-> [kind |-> "Error generating PDF", n |-> 0], isGenerating |-> TRUE]
    ELSE [status |-> [kind |-> "PDF generated", n |-> minutes], isGenerating |-> FALSE]

\* The end of a generatePDF call: setStatus(`PDF generated: ${totalMinutes} minutes,
\* ${totalHours} hours`) or, in the catch block, setStatus('Error generating PDF');
\* then, in the finally block, setIsGenerating(false)
afterRun(thrown, minutes) ==
    IF thrown
    THEN [status |-> [kind |-> "Error generating PDF", n |-> 0], isGenerating |-> FALSE]
    ELSE [status |-> [kind |-> "PDF generated", n |-> minutes], isGenerating |-> FALSE]

---------------------------------------------------------------------------
(* Events and their inputs *)

\* "hh:mm"
T(h, m) ==
    <<Digits[(h \div 10) + 1], Digits[(h % 10) + 1], ":",
      Digits[(m \div 10) + 1], Digits[(m % 10) + 1]>>

\* The record of an event: which handler ran, at which cell, with which text.
\* text2, key, caret, ok and rect are set by the events that have them.
Ev(kind, day, col, text) ==
    [kind |-> kind, day |-> day, col |-> col, text |-> text, text2 |-> <<>>,
     key |-> "", caret |-> 0, ok |-> FALSE,
     rect |-> [minDay |-> 0, maxDay |-> 0, minCol |-> 0, maxCol |-> 0]]

NoEv == Ev("init", 0, 0, <<>>)

\* useState('Ready - Paste from Excel supported (Ctrl+V / Cmd+V)')
ReadyStatus == [kind |-> "Ready", n |-> 0]

\* Bound on the number of events of one run of the grid handlers.
MaxOps == 2

\* Bound on the number of events of one run of the keyboard navigation.
MaxNavOps == 5

\* Bound on the number of rows and of columns of a copied rectangle.
MaxRect == 2

\* The days the typing events of a run address.
EditDays == {1, 31}

\* The columns the typing events of a run address.
EditCols == {0, 4, 5}

\* The days a paste starts at.
PasteDays == {1, 30, 31}

\* What is typed into a time input: nothing, a time followed by a blank, something
\* that is no time.
Values == {<<>>, T(9, 0) \o <<" ">>, <<"x">>}

Remarks == {<<>>, <<"o", "k">>}

\* The columns a paste starts at.
PasteCols == {0, 5}

\* Clipboard texts: a 2x2 block, a row whose first cell is empty, a single cell,
\* a column with a CRLF line end and a final line end.
PasteTexts ==
    { T(9, 0) \o <<"\t">> \o T(17, 30) \o <<"\n">> \o T(22, 0) \o <<"\t">> \o T(6, 0),
      <<"\t">> \o T(9, 0),
      T(17, 30),
      <<" ">> \o T(9, 0) \o <<" ", "\r", "\n">> \o T(6, 0) \o <<"\n">> }

\* The cells the pointer and the mouse focus address.
PointerCells == {[day |-> d, col |-> c] : d \in {1, 2, 31}, c \in {0, 5}}

Keys == {"Enter", "ArrowDown", "ArrowUp", "ArrowRight", "ArrowLeft", "Tab", "a"}

---------------------------------------------------------------------------
(* The handlers *)

Init ==
    /\ dayEntries = createEmptyDayEntries
    /\ prevEntries = createEmptyDayEntries
    /\ status = ReadyStatus
    /\ focus = NoFocus
    /\ selection = IdleSelection
    /\ prevented = FALSE
    /\ ev = NoEv
    /\ ret = 0
    /\ ops = 0
    /\ personalInfo = initialPersonalInfo
    /\ isGenerating = FALSE
    /\ runs = <<>>
    /\ download = NoFile
    /\ templates = <<>>
    /\ clipboard = <<>>

\* onChange={(e) => updateTimeSlot(day, slotIndex, 'von' | 'bis', e.target.value)}
\* of the input in column col = slotIndex * 2 (von) or slotIndex * 2 + 1 (bis)
UpdateTimeSlot ==
    /\ ops < MaxOps
    /\ \E day \in EditDays, col \in EditCols, value \in Values :
        LET slotIndex == col \div 2
            field     == IF col % 2 = 0 THEN "von" ELSE "bis"
            r         == updateTimeSlot(dayEntries, day, slotIndex, field, value)
        IN
        /\ dayEntries' = r.state
        /\ prevEntries' = r.prev
        /\ prevented' = FALSE
        /\ ev' = Ev("updateTimeSlot", day, col, value)
        /\ ops' = ops + 1
        /\ UNCHANGED <<status, focus, selection, ret>>
        /\ UNCHANGED <<exportVars, storeVars>>

\* onChange={(e) => updateRemark(day, e.target.value)}
UpdateRemark ==
    /\ ops < MaxOps
    /\ \E day \in EditDays, value \in Remarks :
        LET r == updateRemark(dayEntries, day, value) IN
        /\ dayEntries' = r.state
        /\ prevEntries' = r.prev
        /\ prevented' = FALSE
        /\ ev' = Ev("updateRemark", day, 0, value)
        /\ ops' = ops + 1
        /\ UNCHANGED <<status, focus, selection, ret>>
        /\ UNCHANGED <<exportVars, storeVars>>

\* onPaste={(e) => handlePaste(e, day, colIndex)}
HandlePaste ==
    /\ ops < MaxOps
    /\ \E day \in PasteDays, colIndex \in PasteCols, pastedText \in PasteTexts :
        LET r == handlePaste(dayEntries, status, day, colIndex, pastedText) IN
        /\ dayEntries' = r.state
        /\ prevEntries' = r.prev
        /\ status' = r.status
        /\ prevented' = r.prevented
        /\ ev' = Ev("handlePaste", day, colIndex, pastedText)
        /\ ops' = ops + 1
        /\ UNCHANGED <<focus, selection, ret>>
        /\ UNCHANGED <<exportVars, storeVars>>

\* clearAll, with `ok` the answer to confirm('Clear all entries?')
ClearAll ==
    /\ ops < MaxOps
    /\ \E ok \in BOOLEAN :
        /\ dayEntries' = clearAll(dayEntries, status, ok).state
        /\ prevEntries' = dayEntries
        /\ status' = clearAll(dayEntries, status, ok).status
        /\ prevented' = FALSE
        /\ ev' = [Ev("clearAll", 0, 0, <<>>) EXCEPT !.ok = ok]
        /\ ops' = ops + 1
        /\ UNCHANGED <<focus, selection, ret>>
        /\ UNCHANGED <<exportVars, storeVars>>

Next ==
    \/ UpdateTimeSlot
    \/ UpdateRemark
    \/ HandlePaste
    \/ ClearAll

Spec == Init /\ [][Next]_vars

---------------------------------------------------------------------------
(* Keyboard navigation between the grid inputs *)

\* The user clicks into a grid input.
FocusCell ==
    /\ ops < MaxNavOps
    /\ \E cell \in PointerCells :
        /\ focus' = cell
        /\ ev' = Ev("focus", cell.day, cell.col, <<>>)
    /\ prevented' = FALSE
    /\ ops' = ops + 1
    /\ UNCHANGED <<dayEntries, prevEntries, status, selection, ret>>
    /\ UNCHANGED <<exportVars, storeVars>>

\* onKeyDown={(e) => handleKeyDown(e, day, colIndex)} of the input that has the
\* focus; the caret is at the start or at the end of its text.
HandleKeyDown ==
    /\ ops < MaxNavOps
    /\ focus # NoFocus
    /\ LET valueLength == Len(cellValue(dayEntries, focus.day, focus.col)) IN
       \E key \in Keys, selectionStart \in {0, valueLength} :
        LET r == handleKeyDown(focus.day, focus.col, key, selectionStart, valueLength) IN
        /\ focus' = r.focus
        /\ prevented' = r.prevented
        /\ ev' = [Ev("handleKeyDown", focus.day, focus.col, <<>>)
                     EXCEPT !.key = key, !.caret = selectionStart]
    /\ ops' = ops + 1
    /\ UNCHANGED <<dayEntries, prevEntries, status, selection, ret>>
    /\ UNCHANGED <<exportVars, storeVars>>

\* The user types into the input that has the focus: its onChange calls
\* updateTimeSlot for that cell.
TypeAtFocus ==
    /\ ops < MaxNavOps
    /\ focus # NoFocus
    /\ \E value \in Values :
        LET pos == getCellPosition(focus.day, focus.col)
            r   == updateTimeSlot(dayEntries, pos.day, pos.slotIndex, pos.field, value)
        IN  /\ dayEntries' = r.state
            /\ prevEntries' = r.prev
            /\ ev' = Ev("updateTimeSlot", focus.day, focus.col, value)
    /\ prevented' = FALSE
    /\ ops' = ops + 1
    /\ UNCHANGED <<status, focus, selection, ret>>
    /\ UNCHANGED <<exportVars, storeVars>>

NextNav ==
    \/ FocusCell
    \/ HandleKeyDown
    \/ TypeAtFocus

SpecNav == Init /\ [][NextNav]_vars

---------------------------------------------------------------------------
(* The selection controller *)

PointerDown ==
    /\ selection.mode # "Selecting"
    /\ \E cell \in PointerCells :
        /\ selection' = pointerDown(selection, cell)
        /\ ev' = Ev("pointerDown", cell.day, cell.col, <<>>)
    /\ UNCHANGED <<dayEntries, prevEntries, status, focus, prevented, ret, ops>>
    /\ UNCHANGED <<exportVars, storeVars>>

PointerEnter ==
    /\ \E cell \in PointerCells :
        /\ selection' = pointerEnter(selection, cell)
        /\ ev' = Ev("pointerEnter", cell.day, cell.col, <<>>)
    /\ UNCHANGED <<dayEntries, prevEntries, status, focus, prevented, ret, ops>>
    /\ UNCHANGED <<exportVars, storeVars>>

PointerUp ==
    /\ selection' = pointerUp(selection)
    /\ ev' = Ev("pointerUp", 0, 0, <<>>)
    /\ UNCHANGED <<dayEntries, prevEntries, status, focus, prevented, ret, ops>>
    /\ UNCHANGED <<exportVars, storeVars>>

Escape ==
    /\ selection.mode = "Selected"
    /\ selection' = clearSelection(selection)
    /\ ev' = Ev("escape", 0, 0, <<>>)
    /\ UNCHANGED <<dayEntries, prevEntries, status, focus, prevented, ret, ops>>
    /\ UNCHANGED <<exportVars, storeVars>>

ClickOutside ==
    /\ selection.mode = "Selected"
    /\ selection' = clearSelection(selection)
    /\ ev' = Ev("clickOutside", 0, 0, <<>>)
    /\ UNCHANGED <<dayEntries, prevEntries, status, focus, prevented, ret, ops>>
    /\ UNCHANGED <<exportVars, storeVars>>

NextSel ==
    \/ PointerDown
    \/ PointerEnter
    \/ PointerUp
    \/ Escape
    \/ ClickOutside

SpecSel == Init /\ [][NextSel]_vars

---------------------------------------------------------------------------
(* Copy, then paste of the copied text *)

\* The rectangles copied: at most MaxRect rows and columns, more than one cell,
\* inside the grid. (The text of a single cell holds no tab and no newline, and
\* handlePaste leaves such a paste to the browser.)
CopyRects ==
    {rect \in [minDay : {1, 30}, maxDay : 1..NumDays, minCol : {0, 4}, maxCol : 0..MaxCol] :
        /\ rect.maxDay - rect.minDay \in 0..(MaxRect - 1)
        /\ rect.maxCol - rect.minCol \in 0..(MaxRect - 1)
        /\ (rect.maxDay > rect.minDay \/ rect.maxCol > rect.minCol)}

\* The text of a rectangle of the grid is copied, then pasted at (day, colIndex).
CopyPaste ==
    /\ ops < MaxOps
    /\ \E rect \in CopyRects, day \in PasteDays, colIndex \in PasteCols :
        LET pastedText == copyText(dayEntries, rect.minDay, rect.maxDay,
                                   rect.minCol, rect.maxCol)
            r == handlePaste(dayEntries, status, day, colIndex, pastedText)
        IN  /\ dayEntries' = r.state
            /\ prevEntries' = r.prev
            /\ status' = r.status
            /\ prevented' = r.prevented
            /\ ev' = [Ev("copyPaste", day, colIndex, pastedText) EXCEPT !.rect = rect]
    /\ ops' = ops + 1
    /\ UNCHANGED <<focus, selection, ret>>
    /\ UNCHANGED <<exportVars, storeVars>>

NextClip ==
    \/ HandlePaste
    \/ CopyPaste

SpecClip == Init /\ [][NextClip]_vars

---------------------------------------------------------------------------
(* Copy of the selected rectangle *)

\* The cells a rectangle is dragged from and to.
CopyCorners == {[day |-> 1, col |-> 0], [day |-> 2, col |-> 5], [day |-> 31, col |-> 4]}

\* The pointer goes down on a cell, is dragged to another and released; then
\* ctrl/cmd+C copies the selection.
SelectAndCopy ==
    /\ ops < MaxOps
    /\ \E anchor \in CopyCorners, endpoint \in CopyCorners :
        LET sel == pointerUp(pointerEnter(pointerDown(selection, anchor), endpoint))
            r   == copy(sel, dayEntries, clipboard, status)
        IN  /\ selection' = sel
            /\ clipboard' = r.clipboard
            /\ status' = r.status
            /\ ev' = Ev("copy", anchor.day, anchor.col, r.clipboard)
    /\ prevented' = FALSE
    /\ ops' = ops + 1
    /\ UNCHANGED <<dayEntries, prevEntries, focus, ret>>
    /\ UNCHANGED <<exportVars, templates>>

NextCopy ==
    \/ UpdateTimeSlot
    \/ SelectAndCopy

SpecCopy == Init /\ [][NextCopy]_vars

---------------------------------------------------------------------------
(* Personal info and templates *)

\* Bound on the number of events of one run of the template store.
MaxTemplateOps == 4

\* What is entered into the personal-info form: a field and its new value.
InfoEdits ==
    { [field |-> "name",   value |-> <<"A">>],
      [field |-> "name",   value |-> <<>>],
      [field |-> "persnr", value |-> <<"7">>],
      [field |-> "monat",  value |-> <<"3">>] }

TemplateNames == {<<"a">>, <<"b">>}

\* onChange={(e) => setPersonalInfo(prev => ({ ...prev, [field]: e.target.value }))}
SetPersonalInfo ==
    /\ ops < MaxTemplateOps
    /\ \E edit \in InfoEdits :
        /\ personalInfo' = [personalInfo EXCEPT ![edit.field] = edit.value]
        /\ ev' = [Ev("setPersonalInfo", 0, 0, edit.value) EXCEPT !.key = edit.field]
    /\ prevented' = FALSE
    /\ ops' = ops + 1
    /\ UNCHANGED <<dayEntries, prevEntries, status, focus, selection, ret>>
    /\ UNCHANGED <<isGenerating, runs, download, storeVars>>

\* Save template, under a name; ev.ok records whether that name was stored before.
SaveTemplate ==
    /\ ops < MaxTemplateOps
    /\ \E name \in TemplateNames :
        /\ templates' = saveTemplate(templates, name, personalInfo, ops + 1)
        /\ ev' = [Ev("saveTemplate", 0, 0, name) EXCEPT !.ok = hasTemplate(templates, name)]
    /\ prevented' = FALSE
    /\ ops' = ops + 1
    /\ UNCHANGED <<dayEntries, prevEntries, status, focus, selection, ret>>
    /\ UNCHANGED <<exportVars, clipboard>>

\* Delete template, with `ok` the answer to the confirmation
DeleteTemplate ==
    /\ ops < MaxTemplateOps
    /\ \E name \in TemplateNames, ok \in BOOLEAN :
        /\ templates' = deleteTemplate(templates, name, ok)
        /\ ev' = [Ev("deleteTemplate", 0, 0, name) EXCEPT !.ok = ok]
    /\ prevented' = FALSE
    /\ ops' = ops + 1
    /\ UNCHANGED <<dayEntries, prevEntries, status, focus, selection, ret>>
    /\ UNCHANGED <<exportVars, clipboard>>

NextTemplate ==
    \/ SetPersonalInfo
    \/ SaveTemplate
    \/ DeleteTemplate

SpecTemplate == Init /\ [][NextTemplate]_vars

---------------------------------------------------------------------------
(* The export, with the events that can come while it is pending *)

\* Bound on the number of user events (typing, paste, clicks) of one run of the
\* export.
MaxExportOps == 3

\* The files the fetch of /Stundenrapport.pdf can deliver: the form with every
\* field the page fills, a form without a month dropdown, and a form that misses
\* some text fields and whose dropdown has options for two months only.
FullFile ==
    [textFields |-> FormTextFields,
     dropdown   |-> [present |-> TRUE, options |-> MonthOptions, selected |-> <<>>]]

NoDropdownFile == [textFields |-> FormTextFields, dropdown |-> NoDropdown]

PartialFile ==
    [textFields |-> FormTextFields \ {fieldName("allg.name", 0, 0),
                                      fieldName("tab.ein", 1, 1),
                                      fieldName("tab.bemerkung", 0, 1),
                                      fieldName("totall_dez", 0, 0)},
     dropdown   |-> [present |-> TRUE, options |-> SubSeq(MonthOptions, 1, 2),
                     selected |-> <<>>]]

TemplateFiles == {FullFile, NoDropdownFile, PartialFile}

\* A file with no field: what a call holds before the fetch has delivered one
EmptyFile == [textFields |-> {}, dropdown |-> NoDropdown]

\* Something that is no time is typed into the first input of day 1.
TypeTime ==
    /\ ops < MaxExportOps
    /\ \E col \in {0}, value \in {<<"x">>} :
        LET pos == getCellPosition(1, col)
            r   == updateTimeSlot(dayEntries, pos.day, pos.slotIndex, pos.field, value)
        IN  /\ dayEntries' = r.state
            /\ prevEntries' = r.prev
            /\ ev' = Ev("updateTimeSlot", 1, col, value)
    /\ prevented' = FALSE
    /\ ops' = ops + 1
    /\ UNCHANGED <<status, focus, selection, ret>>
    /\ UNCHANGED <<exportVars, storeVars>>

\* A remark is typed into the remark input of day 1.
TypeRemark ==
    /\ ops < MaxExportOps
    /\ LET r == updateRemark(dayEntries, 1, <<"o", "k">>) IN
        /\ dayEntries' = r.state
        /\ prevEntries' = r.prev
    /\ ev' = Ev("updateRemark", 1, 0, <<"o", "k">>)
    /\ prevented' = FALSE
    /\ ops' = ops + 1
    /\ UNCHANGED <<status, focus, selection, ret>>
    /\ UNCHANGED <<exportVars, storeVars>>

\* A 2x2 block of times is pasted at the first input of day 1.
PasteBlock ==
    /\ ops < MaxExportOps
    /\ \E day \in {1} :
        LET pastedText == T(9, 0) \o <<"\t">> \o T(17, 30) \o <<"\n">>
                              \o T(22, 0) \o <<"\t">> \o T(6, 0)
            r == handlePaste(dayEntries, status, day, 0, pastedText)
        IN  /\ dayEntries' = r.state
            /\ prevEntries' = r.prev
            /\ status' = r.status
            /\ prevented' = r.prevented
            /\ ev' = Ev("handlePaste", day, 0, pastedText)
    /\ ops' = ops + 1
    /\ UNCHANGED <<focus, selection, ret>>
    /\ UNCHANGED <<exportVars, storeVars>>

\* The name is typed.
TypeInfo ==
    /\ ops < MaxExportOps
    /\ \E edit \in {[field |-> "name", value |-> <<"A">>]} :
        /\ personalInfo' = [personalInfo EXCEPT ![edit.field] = edit.value]
        /\ ev' = [Ev("setPersonalInfo", 0, 0, edit.value) EXCEPT !.key = edit.field]
    /\ prevented' = FALSE
    /\ ops' = ops + 1
    /\ UNCHANGED <<dayEntries, prevEntries, status, focus, selection, ret>>
    /\ UNCHANGED <<isGenerating, runs, download, storeVars>>

\* Clear All is clicked and confirmed.
ConfirmClearAll ==
    /\ ops < MaxExportOps
    /\ dayEntries' = clearAll(dayEntries, status, TRUE).state
    /\ prevEntries' = dayEntries
    /\ status' = clearAll(dayEntries, status, TRUE).status
    /\ prevented' = FALSE
    /\ ev' = [Ev("clearAll", 0, 0, <<>>) EXCEPT !.ok = TRUE]
    /\ ops' = ops + 1
    /\ UNCHANGED <<focus, selection, ret>>
    /\ UNCHANGED <<exportVars, storeVars>>

\* onClick={generatePDF} of the Generate PDF button, unless it is disabled: the
\* call runs to its first await.
GeneratePDF ==
    /\ ops < MaxExportOps
    /\ ~generateDisabled
    /\ isGenerating' = TRUE
    /\ status' = [kind |-> "Generating PDF...", n |-> 0]
    /\ runs' = Append(runs, [pc      |-> "fetch",
                             closure |-> closureOf(personalInfo, dayEntries,
                                                   totalMinutes, totalHours),
                             file    |-> EmptyFile,
                             form    |-> getForm(EmptyFile)])
    /\ prevented' = FALSE
    /\ ev' = Ev("generatePDF", 0, 0, <<>>)
    /\ ops' = ops + 1
    /\ UNCHANGED <<dayEntries, prevEntries, focus, selection, ret>>
    /\ UNCHANGED <<personalInfo, download, storeVars>>

\* runs without call number i
dropRun(i) == SubSeq(runs, 1, i - 1) \o SubSeq(runs, i + 1, Len(runs))

\* A call of generatePDF leaves its try block by a throw: catch, then finally.
Throws(i) ==
    LET r == afterRun(TRUE, runs[i].closure.totalMinutes) IN
    /\ status' = r.status
    /\ isGenerating' = r.isGenerating
    /\ runs' = dropRun(i)
    /\ prevented' = FALSE
    /\ ev' = [Ev("generatePDF threw", 0, 0, <<>>) EXCEPT !.key = runs[i].pc]
    /\ UNCHANGED <<dayEntries, prevEntries, focus, selection, ret, ops>>
    /\ UNCHANGED <<personalInfo, download, storeVars>>

\* A call goes on from pc to the next await, with a file and a form.
GoesOn(i, pc, file, form) ==
    /\ ev' = Ev(pc, 0, 0, <<>>)
    /\ prevented' = FALSE
    /\ UNCHANGED <<dayEntries, prevEntries, status, focus, selection, ret, ops>>
    /\ UNCHANGED <<personalInfo, isGenerating, download, storeVars>>
    /\ runs' = [runs EXCEPT ![i] = [@ EXCEPT !.pc = pc, !.file = file, !.form = form]]

\* await fetch('/Stundenrapport.pdf') settles: a response, or a throw
AwaitFetch ==
    \E i \in 1..Len(runs) :
        /\ runs[i].pc = "fetch"
        /\ \/ GoesOn(i, "arrayBuffer", runs[i].file, runs[i].form)
           \/ Throws(i)

\* await response.arrayBuffer() settles: the bytes of a file, or a throw
AwaitArrayBuffer ==
    \E i \in 1..Len(runs) :
        /\ runs[i].pc = "arrayBuffer"
        /\ \/ \E file \in TemplateFiles : GoesOn(i, "load", file, runs[i].form)
           \/ Throws(i)

\* await PDFDocument.load(pdfBytes) settles: a throw; or the document, whose form is
\* filled and made read-only up to the call of pdfDoc.save()
AwaitLoad ==
    \E i \in 1..Len(runs) :
        /\ runs[i].pc = "load"
        /\ \/ Throws(i)
           \/ GoesOn(i, "save", runs[i].file,
                     fillForm(getForm(runs[i].file), runs[i].closure))

\* await pdfDoc.save() settles: the bytes, which are handed to the browser as
\* Stundenrapport_${jahr}_${monat}.pdf, then the status and finally; or a throw
AwaitSave ==
    \E i \in 1..Len(runs) :
        /\ runs[i].pc = "save"
        /\ \/ LET r == afterRun(FALSE, runs[i].closure.totalMinutes) IN
              /\ download' = [name |-> <<runs[i].closure.personalInfo.jahr,
                                         runs[i].closure.personalInfo.monat>>,
                              form |-> runs[i].form]
              /\ status' = r.status
              /\ isGenerating' = r.isGenerating
              /\ runs' = dropRun(i)
              /\ prevented' = FALSE
              /\ ev' = Ev("PDF generated", 0, 0, <<>>)
              /\ UNCHANGED <<dayEntries, prevEntries, focus, selection, ret, ops>>
              /\ UNCHANGED <<personalInfo, storeVars>>
           \/ Throws(i)

NextExport ==
    \/ TypeTime
    \/ TypeRemark
    \/ PasteBlock
    \/ TypeInfo
    \/ ConfirmClearAll
    \/ GeneratePDF
    \/ AwaitFetch
    \/ AwaitArrayBuffer
    \/ AwaitLoad
    \/ AwaitSave

SpecExport == Init /\ [][NextExport]_vars

\* The export with the events that change the grid as a whole
NextExportLive ==
    \/ PasteBlock
    \/ ConfirmClearAll
    \/ GeneratePDF
    \/ AwaitFetch
    \/ AwaitArrayBuffer
    \/ AwaitLoad
    \/ AwaitSave

\* Every awaited promise settles: the fetch and the body read end with a response
\* or a network error, load and save end.
SpecExportLive ==
    /\ Init /\ [][NextExportLive]_vars
    /\ WF_vars(AwaitFetch)
    /\ WF_vars(AwaitArrayBuffer)
    /\ WF_vars(AwaitLoad)
    /\ WF_vars(AwaitSave)

---------------------------------------------------------------------------
(* Calls of the pure functions, on drawn inputs *)

\* Bound on the length of the strings parseTime is called on.
MaxStrLen == 5

\* The characters of those strings: digits that reach both sides of the hour limit
\* (23, 24) and of the minute limit (46, 60), the colon, a blank and a letter.
ParseAlphabet == {"0", "2", "3", "4", "6", ":", " ", "x"}

ParseInputs == UNION {[1..n -> ParseAlphabet] : n \in 0..MaxStrLen}

\* parseTime(timeStr), called once on a drawn string
CallParseTime ==
    /\ ev.kind = "init"
    /\ \E timeStr \in ParseInputs :
        /\ ev' = Ev("parseTime", 0, 0, timeStr)
        /\ ret' = parseTime(timeStr)
    /\ UNCHANGED <<dayEntries, prevEntries, status, focus, selection, prevented, ops>>
    /\ UNCHANGED <<exportVars, storeVars>>

NextParse == CallParseTime

SpecParse == Init /\ [][NextParse]_vars

\* The strings calculateMinutes is called on: unset, times (two-digit and one-digit
\* hours, blanks around), the first and last minute of the day, and strings that
\* are no times.
TimeInputs ==
    { <<>>, T(9, 0), T(10, 0), T(17, 30), T(22, 0), T(6, 0), T(0, 0), T(23, 59),
      <<"9", ":", "0", "0">>, <<" ">> \o T(6, 0) \o <<" ">>,
      T(24, 0), T(12, 60), <<"x">>, <<"0", "9", "0", "0">>, <<" ">> }

\* calculateMinutes(von, bis), called once on a drawn pair of strings
CallCalculateMinutes ==
    /\ ev.kind = "init"
    /\ \E von \in TimeInputs, bis \in TimeInputs :
        /\ ev' = [Ev("calculateMinutes", 0, 0, von) EXCEPT !.text2 = bis]
        /\ ret' = calculateMinutes(von, bis)
    /\ UNCHANGED <<dayEntries, prevEntries, status, focus, selection, prevented, ops>>
    /\ UNCHANGED <<exportVars, storeVars>>

NextCalc == CallCalculateMinutes

SpecCalc == Init /\ [][NextCalc]_vars

---------------------------------------------------------------------------
(* Reading the grid, for the properties *)

\* The string in column col (0..5) of day `day` of a grid
CellAt(entries, day, col) ==
    entries[day].slots[(col \div 2) + 1][IF col % 2 = 0 THEN "von" ELSE "bis"]

\* The minutes of slot i (1..3) of day d in the current grid
SlotMinutes(d, i) ==
    calculateMinutes(dayEntries[d].slots[i].von, dayEntries[d].slots[i].bis)

\* The sum of the day totals of days d..31
RECURSIVE SumDayMinutesFrom(_)
SumDayMinutesFrom(d) ==
    IF d > 31 THEN 0 ELSE calculateDayMinutes(d) + SumDayMinutesFrom(d + 1)

NoTabNoNewline(text) == \A i \in 1..Len(text) : text[i] \notin {"\t", "\n"}

---------------------------------------------------------------------------
(* Properties of the grid handlers, under Spec *)

\* C3: in every reachable state totalMinutes is the sum of the day totals of days
\* 1..31, and the total of each day is the sum of calculateMinutes over its 3 slots.
C3_TotalsAreSums ==
    /\ totalMinutes = SumDayMinutesFrom(1)
    /\ \A d \in 1..31 :
          calculateDayMinutes(d) = SlotMinutes(d, 1) + SlotMinutes(d, 2) + SlotMinutes(d, 3)

\* Two events have been handled and two different days have minutes.
C3_Witness ==
    /\ ops = 2
    /\ calculateDayMinutes(1) > 0
    /\ calculateDayMinutes(2) > 0
    /\ totalMinutes = calculateDayMinutes(1) + calculateDayMinutes(2)

\* C4: after any sequence of updateTimeSlot, updateRemark, handlePaste and clearAll
\* the grid has exactly 31 entries of exactly 3 slots each, and totalMinutes is a
\* non-negative integer.
C4_GridShape ==
    /\ DOMAIN dayEntries = 1..31
    /\ \A d \in DOMAIN dayEntries : DOMAIN dayEntries[d].slots = 1..3
    /\ totalMinutes \in Nat

\* A 2x2 block has been pasted at day 31, column 5, after another event.
C4_Witness ==
    /\ ops = 2
    /\ ev.kind = "handlePaste"
    /\ ev.day = 31
    /\ ev.col = 5
    /\ status = [kind |-> "Pasted", n |-> 2]

\* C7: updateTimeSlot changes only the named field of the named slot of the named
\* day, to the value given, and updateRemark only the remark of the named day; all
\* other cells and remarks keep their value, and the array that was the state before
\* reads as before.
C7_UpdateFrame ==
    [][ /\ ev'.kind = "updateTimeSlot" =>
             /\ \A d \in 1..31, c \in 0..5 :
                   CellAt(dayEntries', d, c) =
                       IF d = ev'.day /\ c = ev'.col THEN ev'.text
                       ELSE CellAt(dayEntries, d, c)
             /\ \A d \in 1..31 : dayEntries'[d].remark = dayEntries[d].remark
             /\ prevEntries' = dayEntries
        /\ ev'.kind = "updateRemark" =>
             /\ \A d \in 1..31, c \in 0..5 :
                   CellAt(dayEntries', d, c) = CellAt(dayEntries, d, c)
             /\ \A d \in 1..31 :
                   dayEntries'[d].remark =
                       IF d = ev'.day THEN ev'.text ELSE dayEntries[d].remark
             /\ prevEntries' = dayEntries
      ]_vars

\* A time field of a day that has a remark has just been set.
C7_Witness ==
    /\ ev.kind = "updateTimeSlot"
    /\ ev.text # <<>>
    /\ dayEntries[ev.day].remark # <<>>
    /\ CellAt(dayEntries, ev.day, ev.col) = ev.text

\* C9: a paste whose text holds neither a tab nor a newline is left to the browser:
\* preventDefault is not called, and the day entries and the status line are unchanged.
C9_SingleCellPasteFallsThrough ==
    [][ (ev'.kind = "handlePaste" /\ NoTabNoNewline(ev'.text)) =>
            /\ prevented' = FALSE
            /\ dayEntries' = dayEntries
            /\ status' = status
      ]_vars

\* A single-cell text has been pasted on a grid that is not empty.
C9_Witness ==
    /\ ev.kind = "handlePaste"
    /\ ev.text # <<>>
    /\ NoTabNoNewline(ev.text)
    /\ prevented = FALSE
    /\ totalMinutes > 0

---------------------------------------------------------------------------
(* Properties of the time functions, under SpecParse and SpecCalc *)

\* The ways an hour 0..23 is written with one or two digits, and a minute 0..59
\* with two.
TwoDigits(n) == <<Digits[(n \div 10) + 1], Digits[(n % 10) + 1]>>

HourTexts(h) == IF h < 10 THEN {<<Digits[h + 1]>>, TwoDigits(h)} ELSE {TwoDigits(h)}

\* The number of blanks s starts with, and the number it ends with after those
LeadingBlanks(s) ==
    CHOOSE a \in 0..Len(s) :
        /\ \A i \in 1..a : s[i] \in WhiteSpace
        /\ a = Len(s) \/ s[a + 1] \notin WhiteSpace

TrailingBlanks(s) ==
    CHOOSE b \in 0..(Len(s) - LeadingBlanks(s)) :
        /\ \A i \in (Len(s) - b + 1)..Len(s) : s[i] \in WhiteSpace
        /\ b = Len(s) - LeadingBlanks(s) \/ s[Len(s) - b] \notin WhiteSpace

\* s without the blanks around it
Core(s) == SubSeq(s, LeadingBlanks(s) + 1, Len(s) - TrailingBlanks(s))

\* The times (hours, minutes) that the string t writes as H:MM or HH:MM
TimesWrittenBy(t) ==
    IF Len(t) < 4 \/ t[Len(t) - 2] # ":" THEN {}
    ELSE {h \in 0..23 : SubSeq(t, 1, Len(t) - 3) \in HourTexts(h)}
         \X {m \in 0..59 : SubSeq(t, Len(t) - 1, Len(t)) = TwoDigits(m)}

\* C2: parseTime(s) returns a value exactly when s without the whitespace around
\* it is one or two digits, a colon and two digits, with hours in 0..23 and
\* minutes in 0..59; the value holds those hours and minutes. For every other
\* string it returns none.
C2_ParseTimeContract ==
    ev.kind = "parseTime" =>
        LET times == TimesWrittenBy(Core(ev.text)) IN
        IF times = {}
        THEN ret = NULL
        ELSE \E hm \in times : ret = [hours |-> hm[1], minutes |-> hm[2]]

\* A one-digit hour with a blank before it has been parsed.
C2_Witness ==
    /\ ev.kind = "parseTime"
    /\ ev.text = <<" ", "2", ":", "3", "0">>
    /\ ret = [hours |-> 2, minutes |-> 30]

\* C1: calculateMinutes(von, bis) is 0 if either string fails parseTime; otherwise,
\* with start and end in minutes since midnight, it is end - start when
\* end >= start and (1440 - start) + end when end < start. It is never negative.
C1_CalculateMinutesContract ==
    ev.kind = "calculateMinutes" =>
        LET start == parseTime(ev.text)
            end   == parseTime(ev.text2)
            s     == start.hours * 60 + start.minutes
            e     == end.hours * 60 + end.minutes
        IN  /\ (start = NULL \/ end = NULL) => ret = 0
            /\ (start # NULL /\ end # NULL /\ e >= s) => ret = e - s
            /\ (start # NULL /\ end # NULL /\ e < s) => ret = (1440 - s) + e
            /\ ret \in Nat
            /\ (ev.text = T(9, 0) /\ ev.text2 = T(17, 30)) => ret = 510
            /\ (ev.text = T(22, 0) /\ ev.text2 = T(6, 0)) => ret = 480
            /\ (ev.text = T(9, 0) /\ ev.text2 = T(9, 0)) => ret = 0
            /\ (ev.text = <<>> /\ ev.text2 = T(10, 0)) => ret = 0

\* An interval that crosses midnight has been computed.
C1_Witness ==
    /\ ev.kind = "calculateMinutes"
    /\ ev.text = T(22, 0)
    /\ ev.text2 = T(6, 0)
    /\ ret = 480

---------------------------------------------------------------------------
(* Properties of the paste, under Spec and SpecClip *)

\* The positions of the separator in s, with the two ends of s
Cuts(s, sep) == {i \in 1..Len(s) : s[i] = sep} \cup {0, Len(s) + 1}

\* The number of pieces the separator cuts s into, and piece number k (from 0)
NumPieces(s, sep) == Cardinality(Cuts(s, sep)) - 1

Piece(s, sep, k) ==
    LET lo == CHOOSE x \in Cuts(s, sep) : Cardinality({y \in Cuts(s, sep) : y < x}) = k
        hi == CHOOSE x \in Cuts(s, sep) : Cardinality({y \in Cuts(s, sep) : y < x}) = k + 1
    IN  SubSeq(s, lo + 1, hi - 1)

\* Whether `text`, cut into lines and the lines into cells, has a cell at line r,
\* position k, and that cell without the whitespace around it
HasCell(text, r, k) ==
    /\ r \in 0..(NumPieces(text, "\n") - 1)
    /\ k \in 0..(NumPieces(Piece(text, "\n", r), "\t") - 1)

TrimmedCell(text, r, k) == Core(Piece(Piece(text, "\n", r), "\t", k))

\* The grid after `text` has been written at (day, col) of `before`, cell by cell,
\* cells beyond day 31 or column 5 dropped: whether `after` is that grid
WrittenAt(before, after, day, col, text) ==
    \A d \in 1..31, c \in 0..5 :
        CellAt(after, d, c) =
            IF d >= day /\ c >= col /\ HasCell(text, d - day, c - col)
            THEN TrimmedCell(text, d - day, c - col)
            ELSE CellAt(before, d, c)

\* C5: a multi-cell paste at (day, col) splits the clipboard text on newlines and
\* each line on tabs and writes the trimmed cell at line r, position c into grid
\* cell (day + r, col + c), for every r and c; cells beyond day 31 or column 5 are
\* dropped.
C5_PasteWritesEveryCell ==
    (ev.kind = "handlePaste" /\ ~NoTabNoNewline(ev.text)) =>
        WrittenAt(prevEntries, dayEntries, ev.day, ev.col, ev.text)

\* What the paste does write: the cells of the text without the whitespace around
\* the whole text.
PasteWritesCellsOfTrimmedText ==
    (ev.kind \in {"handlePaste", "copyPaste"} /\ ~NoTabNoNewline(ev.text)) =>
        WrittenAt(prevEntries, dayEntries, ev.day, ev.col, Core(ev.text))

\* C6: the text of an R x C rectangle, serialized as copy does and pasted at an
\* anchor (day, col), leaves each target cell (day + r, col + c) within day 31 and
\* column 5 equal to the copied source cell (r, c).
C6_CopyPasteRoundTrip ==
    ev.kind = "copyPaste" =>
        \A r \in 0..(ev.rect.maxDay - ev.rect.minDay),
           c \in 0..(ev.rect.maxCol - ev.rect.minCol) :
            (ev.day + r <= 31 /\ ev.col + c <= 5) =>
                CellAt(dayEntries, ev.day + r, ev.col + c) =
                    CellAt(prevEntries, ev.rect.minDay + r, ev.rect.minCol + c)

---------------------------------------------------------------------------
(* Properties of the keyboard navigation, under SpecNav *)

InGrid(cell) == cell.day \in 1..31 /\ cell.col \in 0..5

\* The cell a key aims at from (d, c), with the caret at `caret` in a text of
\* length len; the cell itself for a key that does not move.
KeyTarget(d, c, key, caret, len) ==
    IF key \in {"Enter", "ArrowDown"} THEN [day |-> d + 1, col |-> c]
    ELSE IF key = "ArrowUp" THEN [day |-> d - 1, col |-> c]
    ELSE IF key = "ArrowRight" /\ caret = len THEN [day |-> d, col |-> c + 1]
    ELSE IF key = "ArrowLeft" /\ caret = 0 THEN [day |-> d, col |-> c - 1]
    ELSE [day |-> d, col |-> c]

\* The keys and caret positions the navigation is stated for
MovesFocus(key, caret, len) ==
    \/ key \in {"Enter", "ArrowDown", "ArrowUp"}
    \/ key = "ArrowRight" /\ caret = len
    \/ key = "ArrowLeft" /\ caret = 0

\* C8: from (day, col) Enter and ArrowDown move the focus to (day + 1, col), ArrowUp
\* to (day - 1, col), ArrowRight with the caret at the end of the text to
\* (day, col + 1), ArrowLeft with the caret at its start to (day, col - 1); a move
\* to day 0, day 32, column -1 or column 6 leaves the focus where it is. The focus
\* stays within days 1..31 and columns 0..5, and no key changes the grid.
C8_KeyboardNavigation ==
    /\ [](focus = NoFocus \/ InGrid(focus))
    /\ [][ ev'.kind = "handleKeyDown" =>
             LET len    == Len(CellAt(dayEntries, focus.day, focus.col))
                 target == KeyTarget(focus.day, focus.col, ev'.key, ev'.caret, len)
             IN  /\ ev'.day = focus.day /\ ev'.col = focus.col
                 /\ MovesFocus(ev'.key, ev'.caret, len) =>
                        focus' = IF InGrid(target) THEN target ELSE focus
                 /\ dayEntries' = dayEntries
         ]_vars

\* ArrowRight, with the caret at the end of a text that is not empty, has moved
\* the focus one column to the right.
C8_Witness ==
    /\ ev.kind = "handleKeyDown"
    /\ ev.key = "ArrowRight"
    /\ ev.caret > 0
    /\ focus = [day |-> ev.day, col |-> ev.col + 1]
    /\ CellAt(dayEntries, ev.day, ev.col) # <<>>

---------------------------------------------------------------------------
(* Properties of the selection controller, under SpecSel *)

EvCell(e) == [day |-> e.day, col |-> e.col]

\* C10: the selection is Idle, Selecting or Selected. Pointer-down on a cell sets
\* anchor and endpoint to it and enters Selecting; pointer-enter while Selecting
\* changes only the endpoint; pointer-up while Selecting enters Selected with
\* anchor and endpoint as they are; Escape or a click outside the grid returns to
\* Idle with both cleared. Anchor and endpoint are always both set or both unset.
C10_SelectionStateMachine ==
    /\ [](/\ selection.mode \in {"Idle", "Selecting", "Selected"}
          /\ (selection.anchor = NoCell) <=> (selection.endpoint = NoCell)
          /\ (selection.mode = "Idle") <=> (selection.anchor = NoCell))
    /\ [][ /\ ev'.kind = "pointerDown" =>
                selection' = [mode |-> "Selecting", anchor |-> EvCell(ev'),
                              endpoint |-> EvCell(ev')]
           /\ (ev'.kind = "pointerEnter" /\ selection.mode = "Selecting") =>
                selection' = [mode |-> "Selecting", anchor |-> selection.anchor,
                              endpoint |-> EvCell(ev')]
           /\ (ev'.kind = "pointerUp" /\ selection.mode = "Selecting") =>
                selection' = [mode |-> "Selected", anchor |-> selection.anchor,
                              endpoint |-> selection.endpoint]
           /\ ev'.kind \in {"escape", "clickOutside"} =>
                selection' = [mode |-> "Idle", anchor |-> NoCell, endpoint |-> NoCell]
         ]_vars

\* A rectangle dragged from one cell to another has been released.
C10_Witness ==
    /\ ev.kind = "pointerUp"
    /\ selection.mode = "Selected"
    /\ selection.anchor = [day |-> 1, col |-> 0]
    /\ selection.endpoint = [day |-> 31, col |-> 5]

---------------------------------------------------------------------------
(* Properties of copy, under SpecCopy *)

\* C11: copy with an active selection puts on the clipboard the rectangle from
\* the smaller to the larger day and from the smaller to the larger column of
\* anchor and endpoint: one line per day in increasing day, the lines separated by
\* a newline, each line the raw field strings of the day in increasing column,
\* separated by a tab. The count reported is the number of days times the number
\* of columns of the rectangle, and copy does not change the grid.
C11_CopySerializesRectangle ==
    /\ [](ev.kind = "copy" =>
            LET minDay == Min(selection.anchor.day, selection.endpoint.day)
                maxDay == Max(selection.anchor.day, selection.endpoint.day)
                minCol == Min(selection.anchor.col, selection.endpoint.col)
                maxCol == Max(selection.anchor.col, selection.endpoint.col)
            IN  /\ NumPieces(clipboard, "\n") = maxDay - minDay + 1
                /\ \A r \in 0..(maxDay - minDay) :
                      LET line == Piece(clipboard, "\n", r) IN
                      /\ NumPieces(line, "\t") = maxCol - minCol + 1
                      /\ \A c \in 0..(maxCol - minCol) :
                            Piece(line, "\t", c) = CellAt(dayEntries, minDay + r, minCol + c)
                /\ status = [kind |-> "Copied",
                             n    |-> (maxDay - minDay + 1) * (maxCol - minCol + 1)])
    /\ [][ev'.kind = "copy" => dayEntries' = dayEntries]_vars

\* A rectangle of 2 days and 6 columns, dragged from its last cell to its first,
\* has been copied; its last column of day 1 holds a string with a blank at its end.
C11_Witness ==
    /\ ev.kind = "copy"
    /\ selection.anchor = [day |-> 2, col |-> 5]
    /\ selection.endpoint = [day |-> 1, col |-> 0]
    /\ CellAt(dayEntries, 1, 5) = T(9, 0) \o <<" ">>
    /\ status = [kind |-> "Copied", n |-> 12]
    /\ clipboard = <<"\t", "\t", "\t", "\t", "\t">> \o T(9, 0)
                       \o <<" ", "\n", "\t", "\t", "\t", "\t", "\t">>

---------------------------------------------------------------------------
(* Properties of the template store, under SpecTemplate *)

\* The stored templates of a name
TemplatesNamed(list, name) == {i \in 1..Len(list) : list[i].name = name}

\* C12: after any sequence of saves and deletes the stored list holds at most one
\* entry per name; a save under a name, stored before or not, leaves exactly one
\* entry of that name, and it holds the personal info of that save.
C12_TemplatesUniqueByName ==
    /\ [](\A name \in TemplateNames : Cardinality(TemplatesNamed(templates, name)) <= 1)
    /\ [][ev'.kind = "saveTemplate" =>
            /\ Cardinality(TemplatesNamed(templates', ev'.text)) = 1
            /\ \A i \in TemplatesNamed(templates', ev'.text) :
                  /\ templates'[i].personalInfo.name = personalInfo.name
                  /\ templates'[i].personalInfo.vorname = personalInfo.vorname
                  /\ templates'[i].personalInfo.gebdat = personalInfo.gebdat
                  /\ templates'[i].personalInfo.persnr = personalInfo.persnr
         ]_vars

\* A template has been saved under a name that was stored with other personal
\* info, and another template is stored too.
C12_Witness ==
    /\ ev.kind = "saveTemplate"
    /\ ev.ok
    /\ Len(templates) = 2
    /\ \E i \in 1..2 :
          /\ templates[i].name = ev.text
          /\ templates[i].savedAt = ops
          /\ templates[i].personalInfo.name = <<"A">>
          /\ templates[3 - i].personalInfo.name = <<>>

---------------------------------------------------------------------------
(* Further properties of the grid handlers, under Spec *)

\* C15: clearAll changes state only after confirmation. Declined, the day entries
\* and the status line are unchanged; accepted, every von, bis and remark of the
\* 31 days is the empty string, so totalMinutes is 0. The personal info is
\* unchanged either way.
C15_ClearAllAfterConfirmation ==
    [][ ev'.kind = "clearAll" =>
          /\ ~ev'.ok => (dayEntries' = dayEntries /\ status' = status)
          /\ ev'.ok =>
                /\ \A d \in 1..31 :
                      /\ \A c \in 0..5 : CellAt(dayEntries', d, c) = <<>>
                      /\ dayEntries'[d].remark = <<>>
                /\ totalMinutes' = 0
          /\ personalInfo' = personalInfo
      ]_vars

\* Clear all has been declined on a grid that has minutes, and the minutes are
\* still there.
C15_Witness ==
    /\ ev.kind = "clearAll"
    /\ ~ev.ok
    /\ totalMinutes > 0
    /\ status.kind = "Pasted"

\* The number of lines of a clipboard text
NumLines(text) == NumPieces(text, "\n")

\* C19: a multi-cell paste at (day, col) of a text of R lines changes no remark,
\* no cell of a day before `day` or after day + R - 1, and no cell of a column left
\* of `col`; a cell the text has no cell for keeps its value.
C19_PasteFrame ==
    (ev.kind = "handlePaste" /\ ~NoTabNoNewline(ev.text)) =>
        /\ \A d \in 1..31 : dayEntries[d].remark = prevEntries[d].remark
        /\ \A d \in 1..31, c \in 0..5 :
              (\/ d < ev.day
               \/ d > ev.day + NumLines(ev.text) - 1
               \/ c < ev.col
               \/ ~HasCell(ev.text, d - ev.day, c - ev.col))
              => CellAt(dayEntries, d, c) = CellAt(prevEntries, d, c)

\* A block of 2 lines has been pasted at day 1 on a grid that has a remark on
\* day 1; the remark is still there.
C19_Witness ==
    /\ ev.kind = "handlePaste"
    /\ ev.day = 1
    /\ NumLines(ev.text) = 2
    /\ dayEntries[1].remark # <<>>
    /\ CellAt(dayEntries, 1, 0) = T(9, 0)
    /\ CellAt(dayEntries, 2, 1) = T(6, 0)

---------------------------------------------------------------------------
(* Properties of the export, under SpecExport and SpecExportLive *)

\* The calls of generatePDF that have filled the form and await pdfDoc.save()
Filled == {i \in 1..Len(runs) : runs[i].pc = "save"}

\* The text of a field of a filled form; the empty string for a field the form
\* does not have
Exported(run, name, slot, day) ==
    IF fieldName(name, slot, day) \in DOMAIN run.form.text
    THEN run.form.text[fieldName(name, slot, day)]
    ELSE <<>>

\* C13: at most one call of generatePDF is in flight at any time, and while one is
\* in flight isGenerating is true; a call starts only when none is in flight.
C13_OneExportInFlight ==
    /\ [](Len(runs) <= 1 /\ (runs # <<>> => isGenerating))
    /\ [][ev'.kind = "generatePDF" => (runs = <<>> /\ ~isGenerating)]_vars

\* A call awaits the save, and the grid has changed since it was started: events
\* came in between, but no second call.
C13_Witness ==
    /\ Len(runs) = 1
    /\ runs[1].pc = "save"
    /\ isGenerating
    /\ runs[1].closure.dayEntries # dayEntries
    /\ ops = MaxExportOps

\* What the page has for a text field of the form: the string it writes, or the
\* empty string where it writes nothing
PageValue(closure, f) ==
    LET info    == closure.personalInfo
        entries == closure.dayEntries
    IN  CASE f.name = "allg.name"     -> info.name
          [] f.name = "allg.vorname"  -> info.vorname
          [] f.name = "allg.gebdat"   -> info.gebdat
          [] f.name = "allg.persnr"   -> info.persnr
          [] f.name = "allg.jahr"     -> info.jahr
          [] f.name = "tab.ein"       -> entries[f.day].slots[f.slot].von
          [] f.name = "tab.aus"       -> entries[f.day].slots[f.slot].bis
          [] f.name = "tab.bemerkung" -> entries[f.day].remark
          [] f.name = "tab.totall_dd" ->
                IF dayMinutesOf(entries, f.day) > 0
                THEN toString(dayMinutesOf(entries, f.day))
                ELSE <<>>
          [] f.name = "tab.totall_mm" -> toString(closure.totalMinutes)
          [] f.name = "totall_dez"    -> toString(closure.totalHours)
          [] OTHER                    -> <<>>

\* The options of a dropdown that the label of the month is a part of
OptionsFor(dropdown, monat) ==
    {i \in 1..Len(dropdown.options) :
        \E m \in 1..Len(MONTHS) :
            /\ MONTHS[m].value = monat
            /\ includesString(dropdown.options[i], MONTHS[m].label)}

\* C14: a text field or a dropdown that the fetched form does not have, or a month
\* that no option of the dropdown names, is skipped: every field the form does
\* have holds what the page has for it, no field is added, and the call goes on to
\* the save and ends with the success status. A call ends with the status 'Error
\* generating PDF' only by a throw of the fetch, the load or the save, and that
\* leaves the grid, the personal info and the last download as they are.
C14_MissingFieldsAreSkipped ==
    /\ [](\A i \in Filled :
            LET run == runs[i] IN
            /\ DOMAIN run.form.text = run.file.textFields
            /\ \A f \in run.file.textFields : run.form.text[f] = PageValue(run.closure, f)
            /\ run.form.dropdown.present = run.file.dropdown.present
            /\ run.form.dropdown.options = run.file.dropdown.options
            /\ LET named == OptionsFor(run.file.dropdown, run.closure.personalInfo.monat) IN
               IF ~run.file.dropdown.present \/ named = {}
               THEN run.form.dropdown.selected = run.file.dropdown.selected
               ELSE \E o \in named : run.form.dropdown.selected = run.file.dropdown.options[o])
    /\ [][ /\ ev'.kind = "PDF generated" =>
                \E i \in Filled :
                    /\ download'.form = runs[i].form
                    /\ status' = [kind |-> "PDF generated", n |-> runs[i].closure.totalMinutes]
           /\ (status'.kind = "Error generating PDF" /\ status' # status) =>
                ev'.kind = "generatePDF threw"
           /\ ev'.kind = "generatePDF threw" =>
                /\ ev'.key \in {"fetch", "arrayBuffer", "load", "save"}
                /\ status'.kind = "Error generating PDF"
                /\ dayEntries' = dayEntries
                /\ personalInfo' = personalInfo
                /\ download' = download
         ]_vars

\* The export of a grid with times on days 1 and 2 into the form that misses
\* allg.name, tab.ein_1.1, tab.bemerkung.1 and totall_dez and has no option for
\* November has ended with the success status: the other fields are filled, no
\* month is selected.
C14_Witness ==
    /\ ev.kind = "PDF generated"
    /\ status = [kind |-> "PDF generated", n |-> 990]
    /\ DOMAIN download.form.text = PartialFile.textFields
    /\ download.form.text[fieldName("tab.aus", 1, 1)] = T(17, 30)
    /\ download.form.text[fieldName("tab.totall_mm", 0, 0)] = <<"9", "9", "0">>
    /\ download.form.dropdown.selected = <<>>
    /\ download.form.dropdown.present

\* Whether a string is set and is no time
Invalid(str) == str # <<>> /\ parseTime(str) = NULL

\* The minutes of the slots of a day that have no invalid string
ValidMinutes(entries, d) ==
    LET m(i) == IF Invalid(entries[d].slots[i].von) \/ Invalid(entries[d].slots[i].bis)
                THEN 0
                ELSE calculateMinutes(entries[d].slots[i].von, entries[d].slots[i].bis)
    IN  m(1) + m(2) + m(3)

RECURSIVE SumValidMinutesFrom(_, _)
SumValidMinutesFrom(entries, d) ==
    IF d > 31 THEN 0 ELSE ValidMinutes(entries, d) + SumValidMinutesFrom(entries, d + 1)

\* C16: a von or bis string that is set and fails parseTime adds 0 minutes to the
\* total of its day and to totalMinutes; updateTimeSlot stores it as typed, and the
\* export writes it as stored into tab.ein_{slot}.{day} or tab.aus_{slot}.{day}.
C16_InvalidStringsKeptVerbatim ==
    /\ \A d \in 1..31 : calculateDayMinutes(d) = ValidMinutes(dayEntries, d)
    /\ totalMinutes = SumValidMinutesFrom(dayEntries, 1)
    /\ (ev.kind = "updateTimeSlot" /\ Invalid(ev.text)) =>
            CellAt(dayEntries, ev.day, ev.col) = ev.text
    /\ \A i \in Filled : \A d \in 1..31, slot \in 1..3 :
            LET stored == runs[i].closure.dayEntries[d].slots[slot] IN
            /\ (Invalid(stored.von) /\ fieldName("tab.ein", slot, d) \in runs[i].file.textFields)
                  => Exported(runs[i], "tab.ein", slot, d) = stored.von
            /\ (Invalid(stored.bis) /\ fieldName("tab.aus", slot, d) \in runs[i].file.textFields)
                  => Exported(runs[i], "tab.aus", slot, d) = stored.bis

\* "x" was typed over the start of a slot of day 1 that had 510 minutes, and the
\* grid is exported: day 1 has no minutes, the total is that of day 2, and the
\* form holds "x".
C16_Witness ==
    /\ Filled # {}
    /\ CellAt(dayEntries, 1, 0) = <<"x">>
    /\ CellAt(dayEntries, 1, 1) = T(17, 30)
    /\ calculateDayMinutes(1) = 0
    /\ totalMinutes = 480
    /\ \E i \in Filled :
          /\ Exported(runs[i], "tab.ein", 1, 1) = <<"x">>
          /\ Exported(runs[i], "tab.totall_dd", 0, 1) = <<>>
          /\ Exported(runs[i], "tab.totall_mm", 0, 0) = <<"4", "8", "0">>

\* The number a text field of a filled form holds; 0 for a field left empty
ExportedNumber(run, name, day) == parseInt(Exported(run, name, 0, day))

\* The minutes of the times a filled form holds for slot `slot` of day d
ExportedSlotMinutes(run, d, slot) ==
    calculateMinutes(Exported(run, "tab.ein", slot, d), Exported(run, "tab.aus", slot, d))

RECURSIVE SumExportedDaysFrom(_, _)
SumExportedDaysFrom(run, d) ==
    IF d > 31 THEN 0
    ELSE ExportedNumber(run, "tab.totall_dd", d) + SumExportedDaysFrom(run, d + 1)

\* C18: what an export writes is the grid as it was when the export was started,
\* whatever edits, pastes or clear-all come while its awaits are pending: in a form
\* that has the fields, tab.totall_mm is the sum of the written day totals, each
\* written day total is the sum of calculateMinutes over the written von and bis
\* of the day, and totall_dez is tab.totall_mm divided by 60, rounded down.
C18_ExportIsSnapshot ==
    \A i \in Filled :
        runs[i].file.textFields = FormTextFields =>
            LET run == runs[i] IN
            /\ ExportedNumber(run, "tab.totall_mm", 0) = SumExportedDaysFrom(run, 1)
            /\ \A d \in 1..31 :
                  ExportedNumber(run, "tab.totall_dd", d) =
                      ExportedSlotMinutes(run, d, 1) + ExportedSlotMinutes(run, d, 2)
                          + ExportedSlotMinutes(run, d, 3)
            /\ Exported(run, "totall_dez", 0, 0) =
                  toString(ExportedNumber(run, "tab.totall_mm", 0) \div 60)
            /\ \A d \in 1..31, c \in 0..5 :
                  Exported(run, IF c % 2 = 0 THEN "tab.ein" ELSE "tab.aus", (c \div 2) + 1, d)
                      = CellAt(run.closure.dayEntries, d, c)

\* An export of a grid of 990 minutes was started and the grid was cleared while
\* the export was pending; the filled form holds the 510 and 480 minutes of days 1
\* and 2, 990 minutes and 16 hours.
C18_Witness ==
    /\ totalMinutes = 0
    /\ \E i \in Filled :
          /\ runs[i].file = FullFile
          /\ Exported(runs[i], "tab.totall_dd", 0, 1) = <<"5", "1", "0">>
          /\ Exported(runs[i], "tab.totall_dd", 0, 2) = <<"4", "8", "0">>
          /\ Exported(runs[i], "tab.totall_mm", 0, 0) = <<"9", "9", "0">>
          /\ Exported(runs[i], "totall_dez", 0, 0) = <<"1", "6">>
          /\ Exported(runs[i], "tab.ein", 1, 2) = T(22, 0)

\* C17: every export that is started ends with isGenerating false again, whether
\* the fetch, the load or the save succeeds or throws; the step that ends it sets
\* the status to the success message or to 'Error generating PDF'.
C17_ExportTerminates ==
    /\ isGenerating ~> ~isGenerating
    /\ [][(isGenerating /\ ~isGenerating') =>
             status'.kind \in {"PDF generated", "Error generating PDF"}]_vars

\* An export has ended by a throw of the save, with isGenerating false again.
C17_Witness ==
    /\ ev.kind = "generatePDF threw"
    /\ ev.key = "save"
    /\ ~isGenerating
    /\ runs = <<>>
    /\ status.kind = "Error generating PDF"

=============================================================================
